---- MODULE Spec2Model ----
(***************************************************************************)
(* A model of j-scraper: the FileStorageManager ledger                     *)
(* (src/scraper/file_storage.py), the WebScraper orchestrator              *)
(* (src/scraper/scraper.py), the JeopardyGameParser                        *)
(* (src/scraper/parsers/jeopardy_game.py) and the run in src/main.py.      *)
(* The WebScraper is the one built with parser = "jeopardy_game".          *)
(*                                                                         *)
(* The browser, the site and the disk are the environment: what a page     *)
(* holds, whether a navigation raises and whether a file operation raises  *)
(* are inputs drawn with \E at the call that meets them.                   *)
(***************************************************************************)
EXTENDS Integers, Sequences, FiniteSets, TLC

VARIABLES
    processed_ids,   \* FileStorageManager.processed_ids, the in-memory set
    processed_file,  \* the lines of processed_ids.txt, in file order
    files,           \* the record files <data_dir>/<id>.json: id -> content
    item_ids,        \* scrape_multiple: the ID list of the call
    limit,           \* scrape_multiple: limit, <<n>> or NoLimit for None
    results,         \* scrape_multiple: the local list results
    idx,             \* scrape_multiple: position of the for loop in item_ids
    pc,              \* where the run stands
    rendered,        \* the IDs given to driver.get during this run, in order
    last,            \* what the last call of scrape_page / save_data did
    runs,            \* how many runs of main() have started
    page,            \* ParserSpec: the rendered page handed to parse()
    data,            \* ParserSpec: the dict parse() returned
    driver           \* WebScraper.driver: the WebDriver session of the run

vars == <<processed_ids, processed_file, files, item_ids, limit, results, idx,
          pc, rendered, last, runs, page, data, driver>>

(***************************************************************************)
(* Bounds of the model.                                                    *)
(***************************************************************************)
MaxLen == 3        \* longest ID list handed to scrape_multiple
MaxLimit == 1      \* largest limit handed to scrape_multiple
MaxRuns == 2       \* most runs of main() over one data directory
MaxClues == 2      \* most clue elements on one page (both main rounds)
MaxCats == 2       \* most category_name elements in one round
MaxFileLen == 3    \* most lines of processed_ids.txt under ObjectSpec

IDs == {"g1", "g2"}
NoLimit == <<>>
NoResult == [none |-> TRUE]       \* Python's None as a return value
NoValue == "None"                 \* Python's None as a field value

(***************************************************************************)
(* JeopardyGameParser                                                      *)
(*                                                                         *)
(* A clue element is what the DOM queries on it give:                      *)
(*   text  "ok" | "missing" | "stale"   find_element(clue_text).text       *)
(*   value, dd   whether clue_value / clue_value_daily_double exist        *)
(*   click "ok" | "intercepted" | "error"   what value_element.click does  *)
(*   resp  "hidden" | "shown" | "none"  the correct_response element:      *)
(*         revealed by the click, there anyway, or never there             *)
(*   html  "ok" | "error"   get_attribute("outerHTML")                     *)
(* A stale element raises on every query, html included.                   *)
(***************************************************************************)
Element(t, v, d, c, r, h) == [text |-> t, value |-> v, dd |-> d, click |-> c, resp |-> r, html |-> h]

PlainClue == Element("ok", TRUE, FALSE, "ok", "hidden", "ok")
DailyDoubleClue == Element("ok", FALSE, TRUE, "ok", "hidden", "ok")
NoRevealClue == Element("ok", FALSE, FALSE, "ok", "hidden", "ok")
InterceptedClue == Element("ok", TRUE, FALSE, "intercepted", "hidden", "ok")
NoTextClue == Element("missing", TRUE, FALSE, "ok", "hidden", "ok")
StaleClue == Element("stale", TRUE, FALSE, "error", "none", "error")

ClueElements == {PlainClue, DailyDoubleClue, NoRevealClue, InterceptedClue, NoTextClue, StaleClue}

RoundNames == <<"SJ", "DJ">>
Ladder(round_name) == IF round_name = "SJ" THEN <<200, 400, 600, 800, 1000>> ELSE <<400, 800, 1200, 1600, 2000>>
Columns == 6
Unknown == "[Unknown]"

\* An exception is a record; Ok(v) is a normal return of v.
Raise(e) == [raised |-> TRUE, error |-> e]
Ok(v) == [raised |-> FALSE, value |-> v]

_extract_categories(round_element) == [k \in 1..round_element.ncat |-> <<"category", k>>]

\* TRUE / FALSE, or the exception that is not NoSuchElementException.
_is_daily_double(el) ==
    IF el.text = "stale" THEN Raise("StaleElementReferenceException") ELSE Ok(el.dd)

\* Whether the click was made, or the exception that escapes the handler.
_click_clue_value(el) ==
    IF el.text = "stale" THEN Raise("StaleElementReferenceException")
    ELSE IF ~el.value /\ ~el.dd THEN Ok(FALSE)
    ELSE IF el.click = "ok" THEN Ok(TRUE)
    ELSE IF el.click = "intercepted" THEN Ok(FALSE)
    ELSE Raise("WebDriverException")

_extract_correct_response(el, clicked) ==
    IF el.text = "stale" THEN Raise("StaleElementReferenceException")
    ELSE IF el.resp = "shown" \/ (el.resp = "hidden" /\ clicked) THEN Ok("response")
    ELSE Ok(Unknown)

_infer_dollar_value(clue_index, round_name) ==
    LET row == clue_index \div Columns
    IN  IF round_name \in {"SJ", "DJ"}
        THEN IF row + 1 \in DOMAIN Ladder(round_name) THEN Ok(Ladder(round_name)[row + 1]) ELSE Raise("IndexError")
        ELSE Ok(NoValue)

\* Lines 61-89: the clue dict, or the exception the clue's try block raises.
ExtractClue(el, clue_index, round_name, categories) ==
    LET dd == _is_daily_double(el)
        dollar == _infer_dollar_value(clue_index, round_name)
        click == _click_clue_value(el)
        resp == _extract_correct_response(el, click.value)
    IN  IF el.text # "ok" THEN Raise(IF el.text = "missing" THEN "NoSuchElementException" ELSE "StaleElementReferenceException")
        ELSE IF dd.raised THEN dd
        ELSE IF dollar.raised THEN dollar
        ELSE IF click.raised THEN click
        ELSE IF resp.raised THEN resp
        ELSE IF Len(categories) = 0 THEN Raise("ZeroDivisionError")
        ELSE Ok([category |-> categories[(clue_index % Len(categories)) + 1],
                 clue_text |-> "text",
                 correct_response |-> resp.value,
                 round |-> round_name,
                 is_daily_double |-> dd.value,
                 dollar_val |-> dollar.value])

\* Lines 91-98: the skipped_clues entry, or the exception raised while building it.
SkippedEntry(el, round_name, error) ==
    IF el.html = "ok"
    THEN Ok([round |-> round_name, error |-> error, raw_html |-> "outerHTML"])
    ELSE Raise("StaleElementReferenceException")

\* The for loop of lines 59-98 from clue_index on; an exception that leaves
\* the loop is caught at line 100 and ends the round with d as it stands.
RECURSIVE ExtractClues(_, _, _, _, _)
ExtractClues(clue_elements, clue_index, round_name, categories, d) ==
    IF clue_index >= Len(clue_elements) THEN d
    ELSE LET el == clue_elements[clue_index + 1]
             clue == ExtractClue(el, clue_index, round_name, categories)
             skipped == SkippedEntry(el, round_name, clue.error)
         IN  IF ~clue.raised
             THEN ExtractClues(clue_elements, clue_index + 1, round_name, categories,
                               [d EXCEPT !.clues = Append(@, clue.value)])
             ELSE IF ~skipped.raised
             THEN ExtractClues(clue_elements, clue_index + 1, round_name, categories,
                               [d EXCEPT !.skipped_clues = Append(@, skipped.value)])
             ELSE d

_extract_main_round_data(round_element, round_name, d) ==
    IF ~round_element.present THEN d
    ELSE ExtractClues(round_element.clues, 0, round_name, _extract_categories(round_element), d)

\* A final round that records its failure as a skipped clue.
_extract_final_round_data_skips(final, d) ==
    IF final = "ok"
    THEN [d EXCEPT !.clues = Append(@, [category |-> "final category", clue_text |-> "text", correct_response |-> "response",
                                         round |-> "FJ", is_daily_double |-> FALSE, dollar_val |-> NoValue])]
    ELSE [d EXCEPT !.skipped_clues = Append(@, [round |-> "FJ", error |-> final, raw_html |-> "outerHTML"])]

\* final is the first query of the final round that raises, or "ok".
_extract_final_round_data(final, d) ==
    IF final = "ok"
    THEN [d EXCEPT !.clues = Append(@, [category |-> "final category",
                                         clue_text |-> "text",
                                         correct_response |-> "response",
                                         round |-> "FJ",
                                         is_daily_double |-> FALSE,
                                         dollar_val |-> NoValue])]
    ELSE d

\* title is "ok" (matches Show #n - date), "nomatch" or "missing".
_extract_game_metadata(title) ==
    IF title = "ok" THEN <<"show number", "show date">> ELSE <<NoValue, NoValue>>

parse(p) ==
    LET meta == _extract_game_metadata(p.title)
        d0 == [game_id |-> meta[1], game_date |-> meta[2], clues |-> <<>>, skipped_clues |-> <<>>]
        d1 == _extract_main_round_data(p.rounds[1], RoundNames[1], d0)
        d2 == _extract_main_round_data(p.rounds[2], RoundNames[2], d1)
    IN  _extract_final_round_data(p.final, d2)

(***************************************************************************)
(* The pages of ParserSpec: a title, the two main rounds and the           *)
(* final round, with at most MaxClues clue elements on the page.           *)
(***************************************************************************)
SeqsUpTo(S, n) == UNION {[1..k -> S] : k \in 0..n}

NoRound == [present |-> FALSE, ncat |-> 0, clues |-> <<>>]
Rounds(n) == {NoRound} \cup [present : {TRUE}, ncat : 0..MaxCats, clues : SeqsUpTo(ClueElements, n)]
Titles == {"ok", "nomatch", "missing"}
Finals == {"ok", "no final_jeopardy_round", "click error", "no correct_response"}

RoundPairs == {rr \in Rounds(MaxClues) \X Rounds(MaxClues) : Len(rr[1].clues) + Len(rr[2].clues) <= MaxClues}

Pages == [title : Titles, rounds : RoundPairs, final : Finals]

NoPage == [title |-> "none"]

(***************************************************************************)
(* FileStorageManager                                                      *)
(*                                                                         *)
(* A ledger value L holds the three parts of the storage: the record       *)
(* files, the in-memory set and the lines of processed_ids.txt.  fault is  *)
(* the file operation of the call that raises OSError, or "none".          *)
(***************************************************************************)
Ledger(f, s, l) == [files |-> f, processed_ids |-> s, processed_file |-> l]

Faults == {"none", "open", "dump", "mark"}

\* What a json.dump cut short by an error leaves in the file opened with "w".
Truncated == [truncated |-> TRUE]

Range(q) == {q[i] : i \in DOMAIN q}

_load_processed_ids(lines) == Range(lines)

\* A skip check that never finds the ID.
is_processed_never(L, item_id) == FALSE

is_processed(L, item_id) == item_id \in L.processed_ids

Put(f, k, v) == [x \in DOMAIN f \cup {k} |-> IF x = k THEN v ELSE f[x]]

\* Line 54 adds to the set before lines 55-56 open and append to the file.
_mark_as_processed(L, item_id, fault) ==
    LET added == [L EXCEPT !.processed_ids = @ \cup {item_id}]
    IN  IF fault = "mark"
        THEN [raised |-> TRUE, ledger |-> added]
        ELSE [raised |-> FALSE, ledger |-> [added EXCEPT !.processed_file = Append(@, item_id)]]

\* A save that marks the ID before it writes the record.
save_data_mark_first(L, item_id, record, fault) ==
    LET marked == _mark_as_processed(L, item_id, fault)
    IN  IF marked.raised \/ fault = "none" THEN [marked EXCEPT !.ledger.files = IF fault = "none" THEN Put(@, item_id, record) ELSE @]
        ELSE [raised |-> TRUE, ledger |-> IF fault = "dump" THEN [marked.ledger EXCEPT !.files = Put(@, item_id, Truncated)] ELSE marked.ledger]

save_data(L, item_id, record, fault) ==
    IF fault = "open" THEN [raised |-> TRUE, ledger |-> L]
    ELSE IF fault = "dump" THEN [raised |-> TRUE, ledger |-> [L EXCEPT !.files = Put(@, item_id, Truncated)]]
    ELSE _mark_as_processed([L EXCEPT !.files = Put(@, item_id, record)], item_id, fault)

\* The record, NoResult when there is no file, or json.load's exception.
get_data(L, item_id) ==
    IF item_id \notin DOMAIN L.files THEN Ok(NoResult)
    ELSE IF L.files[item_id] = Truncated THEN Raise("JSONDecodeError")
    ELSE Ok(L.files[item_id])

(***************************************************************************)
(* WebScraper.scrape_page                                                  *)
(*                                                                         *)
(* _metadata holds id and url and, read with .get as the code reads them,  *)
(* errors ([] when the key is absent) and scrape_failed (False when        *)
(* absent); the timestamp is left out.  nav is what driver.get does, p the *)
(* page it renders, fault1 and fault2 the faults of the two save_data      *)
(* calls.                                                                  *)
(***************************************************************************)
Url(item_id) == <<"URL_PREFIX", item_id>>

Metadata(item_id, errors, failed) == [id |-> item_id, url |-> Url(item_id), errors |-> errors, scrape_failed |-> failed]

\* Lines 114-120.
WithMetadata(d, item_id) ==
    [game_id |-> d.game_id, game_date |-> d.game_date, clues |-> d.clues,
     skipped_clues |-> d.skipped_clues, _metadata |-> Metadata(item_id, <<>>, FALSE)]

\* Lines 136-148.
ErrorData(item_id, cause) ==
    [_metadata |-> Metadata(item_id, <<<<"Fatal error during scraping", cause>>>>, TRUE)]

Errors(record) == record._metadata.errors

HasSkipped(record) == "skipped_clues" \in DOMAIN record /\ Len(record.skipped_clues) > 0

\* saves lists the save_data calls made: the record handed over and whether
\* the call raised.
scrape_page(L, item_id, nav, p, fault1, fault2) ==
    LET record == WithMetadata(parse(p), item_id)
        s1 == save_data(L, item_id, record, fault1)
        cause == "str(e)"
        before == IF nav = "error" THEN L ELSE s1.ledger
        first == IF nav = "error" THEN <<>> ELSE <<[record |-> record, raised |-> TRUE]>>
        s2 == save_data(before, item_id, ErrorData(item_id, cause), fault2)
    IN  IF is_processed(L, item_id)
        THEN [result |-> NoResult, ledger |-> L, get |-> FALSE, fatal |-> FALSE, saves |-> <<>>]
        ELSE IF nav = "ok" /\ ~s1.raised
        THEN [result |-> record, ledger |-> s1.ledger, get |-> TRUE, fatal |-> FALSE,
              saves |-> <<[record |-> record, raised |-> FALSE]>>]
        ELSE [result |-> NoResult, ledger |-> s2.ledger, get |-> TRUE, fatal |-> TRUE,
              saves |-> Append(first, [record |-> ErrorData(item_id, cause), raised |-> s2.raised])]

(***************************************************************************)
(* The game pages the site serves under Spec: a page that parses           *)
(* clean and a page with one clue whose text cannot be read.               *)
(***************************************************************************)
Round(n, clues) == [present |-> TRUE, ncat |-> n, clues |-> clues]

CleanPage == [title |-> "ok", rounds |-> <<Round(1, <<PlainClue>>), NoRound>>, final |-> "ok"]
SkippedPage == [title |-> "ok", rounds |-> <<Round(1, <<PlainClue, NoTextClue>>), NoRound>>, final |-> "ok"]

SitePages == {CleanPage, SkippedPage}
Navs == {"ok", "error"}

\* The inputs of one scrape_page call that it can tell apart: <<nav, p,
\* fault1, fault2>>.  A call that skips reads none of them, a navigation
\* that raises reads no page and makes no first save, and a first save that
\* returns is the only one.
ScrapeInputs(L, item_id) ==
    IF is_processed(L, item_id) THEN {<<"ok", CleanPage, "none", "none">>}
    ELSE {<<"error", CleanPage, "none", f>> : f \in Faults}
         \cup {<<"ok", p, "none", "none">> : p \in SitePages}
         \cup {<<"ok", p, f[1], f[2]>> : p \in SitePages, f \in (Faults \ {"none"}) \X Faults}

(***************************************************************************)
(* The run: main() builds the storage and the scraper, calls               *)
(* scrape_multiple and closes the scraper; the process then ends, and a    *)
(* later run starts from the files the earlier ones left.                  *)
(***************************************************************************)
\* The WebDriver session: "none" before _setup_driver, "open" after it,
\* "quit" after driver.quit(); exit is the way the run came to close().
Session(s, e) == [session |-> s, exit |-> e]

NoDriver == Session("none", "none")

\* The ways out of the try block of main.
Exits == {"returned", "raised", "load failed", "interrupted"}

NoCall == [id |-> "none", get |-> FALSE, fatal |-> FALSE, saves |-> <<>>, halt |-> "none"]

TheLedger == Ledger(files, processed_ids, processed_file)

SetLedger(L) ==
    /\ files' = L.files
    /\ processed_ids' = L.processed_ids
    /\ processed_file' = L.processed_file

\* The limit check with > for >=.
LimitReached_late == limit # NoLimit /\ Len(results) > limit[1]

LimitReached == limit # NoLimit /\ Len(results) >= limit[1]

\* main, lines 89-94, and the entry of scrape_multiple, line 174.
StartRun ==
    /\ pc = "idle"
    /\ runs < MaxRuns
    /\ runs' = runs + 1
    /\ processed_ids' = _load_processed_ids(processed_file)
    /\ item_ids' \in SeqsUpTo(IDs, MaxLen)
    /\ limit' \in {NoLimit} \cup {<<n>> : n \in 0..MaxLimit}
    /\ results' = <<>>
    /\ idx' = 1
    /\ rendered' = <<>>
    /\ last' = NoCall
    /\ pc' = "loop"
    /\ driver' = Session("open", "none")
    /\ UNCHANGED <<processed_file, files, page, data>>

\* Lines 177-179: the limit check at the head of the loop body.
LimitStop ==
    /\ pc = "loop"
    /\ idx <= Len(item_ids)
    /\ LimitReached
    /\ pc' = "returned"
    /\ UNCHANGED <<driver, processed_ids, processed_file, files, item_ids, limit, results, idx, rendered, last, runs, page, data>>

\* Line 204, after the last ID.
Return ==
    /\ pc = "loop"
    /\ idx > Len(item_ids)
    /\ pc' = "returned"
    /\ UNCHANGED <<driver, processed_ids, processed_file, files, item_ids, limit, results, idx, rendered, last, runs, page, data>>

\* The checks of the result without the one on skipped_clues.
Halt_no_skipped(result) ==
    IF result = NoResult THEN "failed to scrape"
    ELSE IF result._metadata.scrape_failed THEN "failed"
    ELSE "none"

\* The checks of the result with None let through.
Halt_none_goes_on(result) ==
    IF result = NoResult THEN "none"
    ELSE IF result._metadata.scrape_failed THEN "failed"
    ELSE IF HasSkipped(result) THEN "skipped clues"
    ELSE "none"

\* The reason scrape_multiple raises RuntimeError on a result, lines 182-201.
Halt(result) ==
    IF result = NoResult THEN "failed to scrape"
    ELSE IF result._metadata.scrape_failed THEN "failed"
    ELSE IF HasSkipped(result) THEN "skipped clues"
    ELSE "none"

\* Lines 181-203: one pass of the loop body past the limit check.
Iterate ==
    /\ pc = "loop"
    /\ idx <= Len(item_ids)
    /\ ~LimitReached
    /\ \E in \in ScrapeInputs(TheLedger, item_ids[idx]) :
        LET item_id == item_ids[idx]
            r == scrape_page(TheLedger, item_id, in[1], in[2], in[3], in[4])
            halt == Halt(r.result)
        IN  /\ SetLedger(r.ledger)
            /\ rendered' = IF r.get THEN Append(rendered, item_id) ELSE rendered
            /\ last' = [id |-> item_id, get |-> r.get, fatal |-> r.fatal, saves |-> r.saves, halt |-> halt]
            /\ IF halt = "none"
               THEN /\ results' = Append(results, r.result)
                    /\ idx' = idx + 1
                    /\ pc' = "loop"
               ELSE /\ pc' = "raised"
                    /\ UNCHANGED <<driver, results, idx>>
    /\ UNCHANGED <<driver, item_ids, limit, runs, page, data>>

\* main, lines 89-92: the storage and the scraper are built and
\* load_ids_from_file raises.
LoadFails ==
    /\ pc = "idle"
    /\ runs < MaxRuns
    /\ runs' = runs + 1
    /\ processed_ids' = _load_processed_ids(processed_file)
    /\ driver' = Session("open", "none")
    /\ pc' = "load failed"
    /\ UNCHANGED <<processed_file, files, item_ids, limit, results, idx, rendered, last, page, data>>

\* Where a KeyboardInterrupt can meet scrape_multiple: in the loop outside
\* the work on a page ("loop"), in or after driver.get ("get"), inside
\* json.dump ("dump"), after the record file is closed ("written"), after
\* processed_ids.add ("added") and after the append to processed_ids.txt
\* ("marked").  No handler below main catches it: each one is an
\* `except Exception`.
InterruptInputs(L, item_id, inside) ==
    IF ~inside \/ is_processed(L, item_id) THEN {<<"loop", CleanPage>>}
    ELSE {<<point, CleanPage>> : point \in {"loop", "get", "dump", "written", "added", "marked"}}

Interrupted(L, item_id, point, p) ==
    LET record == WithMetadata(parse(p), item_id)
        written == [L EXCEPT !.files = Put(@, item_id, record)]
        added == [written EXCEPT !.processed_ids = @ \cup {item_id}]
    IN  IF point \in {"loop", "get"} THEN L
        ELSE IF point = "dump" THEN [L EXCEPT !.files = Put(@, item_id, Truncated)]
        ELSE IF point = "written" THEN written
        ELSE IF point = "added" THEN added
        ELSE [added EXCEPT !.processed_file = Append(@, item_id)]

\* KeyboardInterrupt during scrape_multiple, caught at main, line 96.
Interrupt ==
    /\ pc = "loop"
    /\ LET inside == idx <= Len(item_ids) /\ ~LimitReached
           item_id == IF idx <= Len(item_ids) THEN item_ids[idx] ELSE "none"
       IN  \E in \in InterruptInputs(TheLedger, item_id, inside) :
               /\ SetLedger(Interrupted(TheLedger, item_id, in[1], in[2]))
               /\ rendered' = IF in[1] = "loop" THEN rendered ELSE Append(rendered, item_id)
               /\ last' = [id |-> item_id, get |-> in[1] # "loop", fatal |-> FALSE, saves |-> <<>>, halt |-> "KeyboardInterrupt"]
    /\ pc' = "interrupted"
    /\ UNCHANGED <<driver, item_ids, limit, results, idx, runs, page, data>>

\* A close() that leaves the session open.
Close_without_quit ==
    /\ pc \in Exits
    /\ pc' = "idle"
    /\ processed_ids' = {}
    /\ item_ids' = <<>>
    /\ limit' = NoLimit
    /\ results' = <<>>
    /\ idx' = 1
    /\ rendered' = <<>>
    /\ last' = NoCall
    /\ UNCHANGED <<driver, processed_file, files, runs, page, data>>

\* main, lines 96-101: the exception is printed, the scraper closed, and the
\* process ends with everything it held in memory.
Close ==
    /\ pc \in Exits
    /\ pc' = "idle"
    /\ driver' = Session("quit", pc)
    /\ processed_ids' = {}
    /\ item_ids' = <<>>
    /\ limit' = NoLimit
    /\ results' = <<>>
    /\ idx' = 1
    /\ rendered' = <<>>
    /\ last' = NoCall
    /\ UNCHANGED <<processed_file, files, runs, page, data>>

Init ==
    /\ processed_ids = {}
    /\ processed_file = <<>>
    /\ files = <<>>
    /\ item_ids = <<>>
    /\ limit = NoLimit
    /\ results = <<>>
    /\ idx = 1
    /\ pc = "idle"
    /\ rendered = <<>>
    /\ last = NoCall
    /\ runs = 0
    /\ driver = NoDriver
    /\ page = NoPage
    /\ data = NoResult

Next == StartRun \/ LoadFails \/ LimitStop \/ Return \/ Iterate \/ Interrupt \/ Close

Spec == Init /\ [][Next]_vars

\* The process goes on running: every step of main and scrape_multiple that
\* can be taken is taken in the end.  Starting a run and interrupting one are
\* up to the user.
FairSpec == Spec /\ WF_vars(LimitStop \/ Return \/ Iterate \/ Close)

(***************************************************************************)
(* The storage as an object: any sequence of calls of save_data on one     *)
(* data directory, and the storage built anew over it.                     *)
(***************************************************************************)
SampleRecords(item_id) ==
    {WithMetadata(parse(p), item_id) : p \in {CleanPage, SkippedPage}} \cup {ErrorData(item_id, "str(e)")}

CallSave ==
    /\ pc = "object"
    /\ Len(processed_file) < MaxFileLen
    /\ \E item_id \in IDs, fault \in Faults :
        \E record \in SampleRecords(item_id) :
            LET s == save_data(TheLedger, item_id, record, fault)
            IN  /\ SetLedger(s.ledger)
                /\ last' = [id |-> item_id, get |-> FALSE, fatal |-> FALSE,
                            saves |-> <<[record |-> record, raised |-> s.raised]>>, halt |-> "none"]
    /\ UNCHANGED <<driver, item_ids, limit, results, idx, pc, rendered, runs, page, data>>

\* FileStorageManager.__init__ over the same data_dir.
Reopen ==
    /\ pc = "object"
    /\ processed_ids' = _load_processed_ids(processed_file)
    /\ last' = NoCall
    /\ UNCHANGED <<driver, processed_file, files, item_ids, limit, results, idx, pc, rendered, runs, page, data>>

InitObject ==
    /\ processed_ids = {}
    /\ processed_file = <<>>
    /\ files = <<>>
    /\ item_ids = <<>>
    /\ limit = NoLimit
    /\ results = <<>>
    /\ idx = 1
    /\ pc = "object"
    /\ rendered = <<>>
    /\ last = NoCall
    /\ runs = 0
    /\ driver = NoDriver
    /\ page = NoPage
    /\ data = NoResult

NextObject == CallSave \/ Reopen

ObjectSpec == InitObject /\ [][NextObject]_vars

(***************************************************************************)
(* The parser on its own: parse() applied to each page of Pages.           *)
(***************************************************************************)
Parse ==
    /\ pc = "parse"
    /\ data' = parse(page)
    /\ pc' = "parsed"
    /\ UNCHANGED <<driver, processed_ids, processed_file, files, item_ids, limit, results, idx, rendered, last, runs, page>>

InitParser ==
    /\ processed_ids = {}
    /\ processed_file = <<>>
    /\ files = <<>>
    /\ item_ids = <<>>
    /\ limit = NoLimit
    /\ results = <<>>
    /\ idx = 1
    /\ pc = "parse"
    /\ rendered = <<>>
    /\ last = NoCall
    /\ runs = 0
    /\ driver = NoDriver
    /\ page \in Pages
    /\ data = NoResult

NextParser == Parse

ParserSpec == InitParser /\ [][NextParser]_vars

(***************************************************************************)
(* Properties                                                              *)
(***************************************************************************)
\* The loop of scrape_multiple is about to call scrape_page on item_ids[idx],
\* and the call runs to its end.
AtScrape == pc = "loop" /\ idx <= Len(item_ids) /\ ~(limit # NoLimit /\ Len(results) >= limit[1]) /\ pc' # "interrupted"

\* The record file of item_id holds a whole record with a non-empty errors list.
Errored(item_id) ==
    /\ item_id \in DOMAIN files
    /\ files[item_id] # Truncated
    /\ Errors(files[item_id]) # <<>>

NoDuplicates(q) == \A i, j \in DOMAIN q : q[i] = q[j] => i = j

\* C1: an ID whose last saved record has a non-empty errors list (the fatal
\* error record of scrape_page included) is not reported by is_processed.
C1_ErroredNotProcessed ==
    \A item_id \in IDs : Errored(item_id) => item_id \notin processed_ids

\* C2: scrape_page called on an ID whose persisted record is an error record
\* (left by an earlier run) renders the page again.
C2_ErroredRenderedAgain ==
    [][\A item_id \in IDs :
          (AtScrape /\ item_ids[idx] = item_id /\ Errored(item_id))
              => rendered' = Append(rendered, item_id)]_vars

\* C3: in a run after the first, an ID of the list that is already processed
\* is skipped and the loop goes on to the next ID, without a raise.
C3_SkipGoesOn ==
    [][(runs > 1 /\ AtScrape /\ item_ids[idx] \in processed_ids)
          => (pc' = "loop" /\ idx' = idx + 1 /\ rendered' = rendered)]_vars

\* C4: scrape_page on an ID that is in processed makes no driver.get call and
\* no save, leaves the ledger and the results as they are, and so no ID is
\* rendered twice in a run.
C4_ProcessedIsSkipped ==
    [][/\ (AtScrape /\ item_ids[idx] \in processed_ids)
              => /\ rendered' = rendered
                 /\ files' = files
                 /\ processed_file' = processed_file
                 /\ processed_ids' = processed_ids
                 /\ results' = results
                 /\ last'.saves = <<>>
                 /\ ~last'.get
       /\ NoDuplicates(rendered')]_vars

\* A later run has met an ID that an earlier run processed, and skipped it.
C4_Witness ==
    /\ runs = 2
    /\ pc = "raised"
    /\ last.id \in Range(processed_file)
    /\ ~last.get
    /\ last.saves = <<>>
    /\ rendered = <<>>

\* The results are the records of the IDs before position idx, in input
\* order, each clean and each the record its file holds.
ResultsAreEarlierRecords ==
    /\ Len(results) = idx - 1
    /\ \A i \in 1..(idx - 1) :
        /\ results[i]._metadata.id = item_ids[i]
        /\ Errors(results[i]) = <<>>
        /\ ~HasSkipped(results[i])
        /\ item_ids[i] \in DOMAIN files
        /\ files[item_ids[i]] = results[i]

\* C5: when the record extracted for an ID B has a skipped clue, the batch
\* raises at B with the results being the records of the IDs before B and
\* nothing after B rendered; B's record, skipped clue included, is the one
\* persisted whenever the save_data call for it returned.
C5_HaltOnSkipped ==
    (last.saves # <<>> /\ HasSkipped(last.saves[1].record)) =>
        /\ pc = "raised"
        /\ item_ids[idx] = last.id
        /\ rendered = SubSeq(item_ids, 1, idx)
        /\ ResultsAreEarlierRecords
        /\ ~last.saves[1].raised =>
            /\ last.halt = "skipped clues"
            /\ files[last.id] = last.saves[1].record
            /\ Len(files[last.id].skipped_clues) >= 1

\* The batch [A, B, x] has raised at B on its skipped clue, with A's record
\* as the only result.
C5_Witness ==
    /\ pc = "raised"
    /\ last.halt = "skipped clues"
    /\ Len(item_ids) = 3
    /\ idx = 2
    /\ Len(results) = 1
    /\ HasSkipped(files[item_ids[2]])

Min(a, b) == IF a <= b THEN a ELSE b

\* C6: with a limit L no more than L pages are rendered and no more than L
\* results held; a batch that returns holds the records of the first
\* min(L, length) IDs in input order and has rendered exactly those; and a
\* batch raises only at an ID that was processed, failed or had skipped clues.
C6_CapRespected ==
    /\ limit # NoLimit =>
        /\ Len(results) <= limit[1]
        /\ Len(rendered) <= limit[1]
        /\ pc = "returned" =>
            /\ Len(results) = Min(limit[1], Len(item_ids))
            /\ rendered = SubSeq(item_ids, 1, Len(results))
            /\ \A i \in 1..Len(results) :
                /\ results[i]._metadata.id = item_ids[i]
                /\ files[item_ids[i]] = results[i]
    /\ pc = "raised" => (~last.get \/ last.fatal \/ HasSkipped(last.saves[1].record))

\* A batch of two different IDs with limit 1 has returned the first one's
\* record without rendering the second.
C6_Witness ==
    /\ pc = "returned"
    /\ limit = <<1>>
    /\ Len(item_ids) >= 2
    /\ item_ids[1] # item_ids[2]
    /\ Len(results) = 1
    /\ rendered = <<item_ids[1]>>

\* C7: after a fatal failure of scrape_page the minimal error record
\* (metadata only, one fatal message) was handed to save_data, and whether or
\* not that call raised, the batch has raised at that ID: nothing after it is
\* rendered, it is rendered once, and the records of the earlier IDs of the
\* run are the ones that were saved for them.
C7_FatalStopsBatch ==
    last.fatal =>
        /\ pc = "raised"
        /\ last.halt = "failed to scrape"
        /\ last.saves # <<>>
        /\ LET attempt == last.saves[Len(last.saves)].record
           IN  /\ DOMAIN attempt = {"_metadata"}
               /\ Len(Errors(attempt)) = 1
               /\ attempt._metadata.id = last.id
        /\ item_ids[idx] = last.id
        /\ rendered = SubSeq(item_ids, 1, idx)
        /\ NoDuplicates(rendered)
        /\ ResultsAreEarlierRecords

\* driver.get raised on the second ID of three and the save of the error
\* record raised too.
C7_Witness ==
    /\ pc = "raised"
    /\ last.fatal
    /\ Len(last.saves) = 1
    /\ last.saves[1].raised
    /\ Len(item_ids) = 3
    /\ idx = 2
    /\ Len(results) = 1

\* C8: when the save_data call for the extracted record raises, the ID is
\* not appended to the results, is_processed does not report it, and the
\* batch has raised.
C8_FailedSaveNotProcessed ==
    (last.saves # <<>> /\ "clues" \in DOMAIN last.saves[1].record /\ last.saves[1].raised) =>
        /\ pc = "raised"
        /\ Len(results) = idx - 1
        /\ ~is_processed(TheLedger, last.id)

\* C9: a save_data call that returns, for an errored record of an ID that is
\* in processed, takes the ID out of processed.
C9_StateTransfer ==
    [][\A item_id \in IDs :
          (/\ item_id \in processed_ids
           /\ last'.id = item_id
           /\ last'.saves # <<>>
           /\ ~last'.saves[1].raised
           /\ Errors(last'.saves[1].record) # <<>>)
              => item_id \notin processed_ids']_vars

\* What lines 61-89 give for each clue element of a round, in document order.
ClueOutcomes(round_element, round_name) ==
    IF ~round_element.present THEN <<>>
    ELSE [i \in 1..Len(round_element.clues) |->
            ExtractClue(round_element.clues[i], i - 1, round_name, _extract_categories(round_element))]

IsClue(outcome) == ~outcome.raised
IsFailure(outcome) == outcome.raised
IsMainClue(clue) == clue.round # "FJ"

PageOutcomes(p) == ClueOutcomes(p.rounds[1], RoundNames[1]) \o ClueOutcomes(p.rounds[2], RoundNames[2])

\* C10: the record holds every main-round clue whose processing did not
\* raise, in order, and one skipped_clues entry for each clue whose
\* processing raised.
C10_ClueIsolation ==
    pc = "parsed" =>
        LET good == SelectSeq(PageOutcomes(page), IsClue)
            main == SelectSeq(data.clues, IsMainClue)
        IN  /\ main = [i \in 1..Len(good) |-> good[i].value]
            /\ Len(data.skipped_clues) = Len(SelectSeq(PageOutcomes(page), IsFailure))

\* A section of the page cannot be read: the game title, the container of a
\* main round, or the final round.
SectionMissing(p) ==
    \/ p.title # "ok"
    \/ ~p.rounds[1].present
    \/ ~p.rounds[2].present
    \/ p.final # "ok"

\* C11: the record scrape_page builds from a page with an unreadable section
\* has a non-empty errors list.
C11_SectionErrorRecorded ==
    (pc = "parsed" /\ SectionMissing(page)) =>
        \A item_id \in IDs : Errors(WithMetadata(data, item_id)) # <<>>

(***************************************************************************)
(* One main round clue by clue: the for loop of _extract_main_round_data   *)
(* over a round of page.n clue elements, all of the kind page.kind, with   *)
(* page.ncat category labels, followed by the final round.  idx is         *)
(* clue_index, data the dict d.                                            *)
(***************************************************************************)
MaxRoundClues == 31    \* most clue elements in the round of ClueSpec

\* A clue whose correct_response element is never there.
NoResponseClue == Element("ok", TRUE, FALSE, "ok", "none", "ok")

ClueKinds == ClueElements \cup {NoResponseClue}

RoundElement == [present |-> TRUE, ncat |-> page.ncat, clues |-> [k \in 1..page.n |-> page.kind]]

\* One iteration of the loop at lines 59-98; an exception raised inside the
\* handler of lines 91-98 leaves the loop and is caught at line 100.
ExtractNext ==
    /\ pc = "clues"
    /\ idx < page.n
    /\ LET el == RoundElement.clues[idx + 1]
           clue == ExtractClue(el, idx, page.round_name, _extract_categories(RoundElement))
           skipped == SkippedEntry(el, page.round_name, clue.error)
       IN  IF ~clue.raised
           THEN /\ data' = [data EXCEPT !.clues = Append(@, clue.value)]
                /\ idx' = idx + 1
                /\ pc' = pc
           ELSE IF ~skipped.raised
           THEN /\ data' = [data EXCEPT !.skipped_clues = Append(@, skipped.value)]
                /\ idx' = idx + 1
                /\ pc' = pc
           ELSE /\ data' = data
                /\ idx' = idx
                /\ pc' = "final"
    /\ UNCHANGED <<driver, processed_ids, processed_file, files, item_ids, limit, results, rendered, last, runs, page>>

\* The loop has gone through every clue element.
RoundEnd ==
    /\ pc = "clues"
    /\ idx >= page.n
    /\ pc' = "final"
    /\ UNCHANGED <<driver, processed_ids, processed_file, files, item_ids, limit, results, idx, rendered, last, runs, page, data>>

ExtractFinal ==
    /\ pc = "final"
    /\ \E final \in Finals : data' = _extract_final_round_data(final, data)
    /\ pc' = "done"
    /\ UNCHANGED <<driver, processed_ids, processed_file, files, item_ids, limit, results, idx, rendered, last, runs, page>>

InitClue ==
    /\ processed_ids = {}
    /\ processed_file = <<>>
    /\ files = <<>>
    /\ item_ids = <<>>
    /\ limit = NoLimit
    /\ results = <<>>
    /\ idx = 0
    /\ pc = "clues"
    /\ rendered = <<>>
    /\ last = NoCall
    /\ runs = 0
    /\ driver = NoDriver
    /\ page \in [round_name : Range(RoundNames), ncat : 0..MaxCats, kind : ClueKinds, n : 0..MaxRoundClues]
    /\ data = [game_id |-> "show number", game_date |-> "show date", clues |-> <<>>, skipped_clues |-> <<>>]

NextClue == ExtractNext \/ RoundEnd \/ ExtractFinal

ClueSpec == InitClue /\ [][NextClue]_vars

\* The step appends a clue to d["clues"].
ClueAppended == Len(data'.clues) = Len(data.clues) + 1

NewClue == data'.clues[Len(data'.clues)]

\* C12: the clue extracted at index i of a main round with column_count
\* categories has the dollar value at position i // column_count of the
\* round's ladder, and the final-round clue has dollar_val None.
C12_DollarByColumnCount ==
    [][/\ (pc = "clues" /\ ClueAppended /\ page.ncat > 0)
            => LET row == idx \div page.ncat
               IN  /\ row + 1 \in DOMAIN Ladder(page.round_name)
                   /\ NewClue.dollar_val = Ladder(page.round_name)[row + 1]
       /\ (pc = "final" /\ ClueAppended) => NewClue.dollar_val = NoValue]_vars

\* C13: whenever an iteration reaches the ladder lookup, the row index is
\* inside the ladder and the lookup raises no IndexError.
C13_LadderIndexInRange ==
    (pc = "clues" /\ idx < page.n /\ page.kind.text = "ok" /\ ~_is_daily_double(page.kind).raised)
        => /\ (idx \div Columns) \in 0..4
           /\ ~_infer_dollar_value(idx, page.round_name).raised

\* The clue text is readable and the reveal fails or no response is there.
RevealFails(el) ==
    /\ el.text = "ok"
    /\ \/ ~el.value /\ ~el.dd
       \/ el.click = "intercepted"
       \/ el.resp = "none"

\* C14: an iteration on a clue with readable text whose reveal fails, or whose
\* response element is absent, appends a clue with correct_response
\* "[Unknown]" and adds nothing to skipped_clues.
C14_UnknownResponseFallback ==
    [][(pc = "clues" /\ idx < page.n /\ RevealFails(page.kind))
          => /\ ClueAppended
             /\ NewClue.correct_response = Unknown
             /\ data'.skipped_clues = data.skipped_clues]_vars

\* C17: a clue extracted at index i of a round with n > 0 categories has
\* category categories[i mod n], and no clue is ever skipped because of the
\* category assignment, n = 0 included.
C17_CategoryByModulo ==
    [][/\ (pc = "clues" /\ ClueAppended /\ page.ncat > 0)
            => NewClue.category = _extract_categories(RoundElement)[(idx % page.ncat) + 1]
       /\ \A k \in DOMAIN data'.skipped_clues : data'.skipped_clues[k].error # "ZeroDivisionError"]_vars

\* The order sorted() gives the IDs.
IdRank(item_id) == IF item_id = "g1" THEN 1 ELSE 2

Sorted(q) == \A i, j \in DOMAIN q : i < j => IdRank(q[i]) <= IdRank(q[j])

\* The last call was a save_data that returned, so it changed the membership.
SaveReturned == last # NoCall /\ ~last.saves[1].raised

\* C15: after a save_data call that marked an ID, processed_ids.txt holds
\* exactly the IDs of the processed set, each once, in sorted order.
C15_FileIsSortedSet ==
    SaveReturned =>
        /\ Range(processed_file) = processed_ids
        /\ NoDuplicates(processed_file)
        /\ Sorted(processed_file)

\* C19: every ID in the processed set has a record file, so that get_data
\* does not report it absent, after any sequence of saves that returned or
\* raised.
C19_ProcessedHasRecord ==
    \A item_id \in IDs :
        is_processed(TheLedger, item_id) =>
            /\ item_id \in DOMAIN files
            /\ get_data(TheLedger, item_id) # Ok(NoResult)

\* A save of an unprocessed ID has just raised, leaving it unprocessed, while
\* another ID is processed and get_data returns its record.
C19_Witness ==
    /\ last # NoCall
    /\ last.saves[1].raised
    /\ ~is_processed(TheLedger, last.id)
    /\ \E item_id \in IDs :
        /\ is_processed(TheLedger, item_id)
        /\ ~get_data(TheLedger, item_id).raised
        /\ get_data(TheLedger, item_id).value = files[item_id]

\* C20: after every save_data call, returned or raised, the in-memory set is
\* the set _load_processed_ids reads back from processed_ids.txt.
C20_SetEqualsFile ==
    last # NoCall => processed_ids = _load_processed_ids(processed_file)

\* The dict after the two main rounds, before the final round.
MainRounds(p) ==
    LET meta == _extract_game_metadata(p.title)
        d0 == [game_id |-> meta[1], game_date |-> meta[2], clues |-> <<>>, skipped_clues |-> <<>>]
    IN  _extract_main_round_data(p.rounds[2], RoundNames[2], _extract_main_round_data(p.rounds[1], RoundNames[1], d0))

FinalClues(d) == {k \in DOMAIN d.clues : d.clues[k].round = "FJ"}

\* C18: the final round adds at most one clue, with round "FJ",
\* is_daily_double False and dollar_val None; when it fails it adds no clue;
\* it never adds to skipped_clues and leaves the main-round clues in place.
C18_FinalIsOneUnit ==
    pc = "parsed" =>
        LET main == MainRounds(page)
            n == Len(main.clues)
        IN  /\ Len(data.clues) = n + (IF page.final = "ok" THEN 1 ELSE 0)
            /\ SubSeq(data.clues, 1, n) = main.clues
            /\ FinalClues(data) \subseteq {n + 1}
            /\ \A k \in FinalClues(data) : ~data.clues[k].is_daily_double /\ data.clues[k].dollar_val = NoValue
            /\ data.skipped_clues = main.skipped_clues
            /\ \A k \in DOMAIN data.skipped_clues : data.skipped_clues[k].round # "FJ"

\* The click in the final round failed on a page with main-round clues.
C18_Witness ==
    /\ pc = "parsed"
    /\ page.final = "click error"
    /\ Len(data.clues) > 0
    /\ FinalClues(data) = {}

\* The record files other than the one of the ID the loop stands at, and the
\* records of the processed IDs, are what they were, and no line of
\* processed_ids.txt is lost.
RecordsIntact ==
    /\ \A item_id \in DOMAIN files :
        (is_processed(TheLedger, item_id) \/ idx > Len(item_ids) \/ item_id # item_ids[idx])
            => (item_id \in DOMAIN files' /\ files'[item_id] = files[item_id])
    /\ Len(processed_file') >= Len(processed_file)
    /\ SubSeq(processed_file', 1, Len(processed_file)) = processed_file

\* C16: a run that has opened the WebDriver session comes to driver.quit()
\* on each way out of the try block of main (return, RuntimeError, failed
\* load of the ID list, KeyboardInterrupt); the interrupt and the teardown
\* leave the records persisted before them as they were.
C16_TeardownOnEveryExit ==
    /\ (driver.session = "open") ~> (driver.session = "quit")
    /\ [][/\ pc' \in Exits => driver'.session = "open"
          /\ pc \in Exits => (driver' = Session("quit", pc) /\ files' = files /\ processed_file' = processed_file)
          /\ pc' = "interrupted" => RecordsIntact]_vars

\* The session was quit after a KeyboardInterrupt in a run that had persisted
\* and marked a record.
C16_Witness ==
    /\ driver = Session("quit", "interrupted")
    /\ runs = 1
    /\ processed_file # <<>>
    /\ \A item_id \in Range(processed_file) : item_id \in DOMAIN files /\ files[item_id] # Truncated

====
